---- MODULE Spec2Model ----
(***************************************************************************)
(* The type-declaration registry of swift-bridge-ir                        *)
(* (crates/swift-bridge-ir/src/parse/type_declarations.rs) and the glue    *)
(* that codegen_tests.rs expects the three generators to emit.             *)
(*                                                                         *)
(* Strings are TLA+ strings; `to_token_stream().to_string()` is modelled   *)
(* by the text it prints, so a lookup key is compared as text.             *)
(***************************************************************************)
EXTENDS Integers, Sequences, FiniteSets, TLC

VARIABLES
    decls,    \* TypeDeclarations.decls : HashMap<String, TypeDeclaration>
    order,    \* TypeDeclarations.order : Vec<String>
    log,      \* history: the insert calls made so far, <<type_name, ty>>
    before,   \* history: the registry as it was when the last call began
    last,     \* history: the last call, its arguments and what it returned
    handles,  \* the opaque values of one run of the generated glue
    step      \* history: the last glue step and the values before it

registryVars == <<decls, order, log, before, last>>
glueVars == <<handles, step>>
vars == <<decls, order, log, before, last, handles, step>>

(***************************************************************************)
(* Bounds of the model.                                                    *)
(***************************************************************************)
MaxInserts == 2
MaxRefDepth == 2
MaxFns == 2
MaxHandles == 2

\* crate::SWIFT_BRIDGE_PREFIX, spelled out in the comments of
\* free_link_name / free_func_name and in the expected link names.
SWIFT_BRIDGE_PREFIX == "__swift_bridge__"

\* HostLang
HostLangs == {"Rust", "Swift"}

\* Names a module of the model may declare.
TypeNames == {"A", "B"}

(***************************************************************************)
(* Declarations.                                                           *)
(***************************************************************************)
OpaqueDecl(name, lang, ad) ==
    [kind |-> "Opaque", ty |-> name, host_lang |-> lang,
     already_declared |-> ad, doc_comment |-> "None", generics |-> <<>>]

SharedStructDecl(name, ad) ==
    [kind |-> "Struct", name |-> name, swift_repr |-> "Structure",
     fields |-> <<"field0", "field1">>, swift_name |-> "None",
     already_declared |-> ad]

SharedEnumDecl(name) ==
    [kind |-> "Enum", name |-> name, variants |-> <<"Variant0", "Variant1">>]

\* The declarations the parser can build for a type called `name`.
DeclsNamed(name) ==
    {OpaqueDecl(name, l, ad) : l \in HostLangs, ad \in BOOLEAN}
        \cup {SharedStructDecl(name, ad) : ad \in BOOLEAN}
        \cup {SharedEnumDecl(name)}

(***************************************************************************)
(* syn::Type, as far as get_with_type distinguishes its variants.          *)
(***************************************************************************)
TypePath(name) == [shape |-> "Path", name |-> name]
TypeReference(mutable, elem) ==
    [shape |-> "Reference", mutable |-> mutable, elem |-> elem]
\* Any other variant of syn::Type (tuple, slice, pointer, ...).
TypeOther == [shape |-> "Other"]

RECURSIVE TypesUpTo(_, _)
TypesUpTo(names, depth) ==
    IF depth = 0
    THEN {TypePath(n) : n \in names} \cup {TypeOther}
    ELSE LET inner == TypesUpTo(names, depth - 1)
         IN  inner \cup {TypeReference(m, e) : m \in BOOLEAN, e \in inner}

\* to_token_stream().to_string() of a type: a path prints its name, a
\* reference prints `&`, `mut` when mutable, then its element.
RECURSIVE TokenString(_)
TokenString(ty) ==
    CASE ty.shape = "Path" -> ty.name
      [] ty.shape = "Reference" ->
            "& " \o (IF ty.mutable THEN "mut " ELSE "") \o TokenString(ty.elem)
      [] OTHER -> "( )"

(***************************************************************************)
(* Option<T>                                                               *)
(***************************************************************************)
None == [some |-> FALSE]
Some(v) == [some |-> TRUE, value |-> v]

(***************************************************************************)
(* TypeDeclarations                                                        *)
(***************************************************************************)
\* HashMap::insert: the entry of an existing key is replaced.
MapInsert(map, k, v) == (k :> v) @@ map

\* TypeDeclarations::get
get(map, type_name) ==
    IF type_name \in DOMAIN map THEN Some(map[type_name]) ELSE None

\* The key get_with_type looks up: the element behind one reference, or
\* the path itself.  "panic" stands for todo!("Handle other cases").
LookupKeyNoStrip(ty) ==
    IF ty.shape \in {"Reference", "Path"} THEN Some(TokenString(ty)) ELSE None
LookupKey(ty) ==
    CASE ty.shape = "Reference" -> Some(TokenString(ty.elem))
      [] ty.shape = "Path" -> Some(TokenString(ty))
      [] OTHER -> None

\* TypeDeclarations::get_with_type: [panic |-> TRUE] when the call panics,
\* otherwise the Option it returns.
Panic == [panic |-> TRUE]
Returns(v) == [panic |-> FALSE, value |-> v]

get_with_type(map, ty) ==
    IF LookupKey(ty).some
    THEN Returns(get(map, LookupKey(ty).value))
    ELSE Panic

\* TypeDeclarations::types
types_by_map_iteration(map, ord) ==
    LET keys == DOMAIN map
        iter == CHOOSE q \in [1..Cardinality(keys) -> keys] :
                    {q[i] : i \in 1..Cardinality(keys)} = keys
    IN  [i \in 1..Cardinality(keys) |-> map[iter[i]]]
types(map, ord) == [i \in 1..Len(ord) |-> map[ord[i]]]

\* TypeDeclaration::to_bridged_type
to_bridged_type_swapped(d, reference, mutable) ==
    CASE d.kind = "Struct" ->
            [custom |-> "SharedStruct", name |-> d.name,
             swift_repr |-> d.swift_repr, fields |-> d.fields,
             swift_name |-> d.swift_name,
             already_declared |-> d.already_declared]
      [] d.kind = "Enum" ->
            [custom |-> "SharedEnum", name |-> d.name, variants |-> d.variants]
      [] d.kind = "Opaque" ->
            [custom |-> "Opaque", ty |-> d.ty, host_lang |-> d.host_lang,
             reference |-> mutable, mutable |-> reference]
to_bridged_type_drops_flag(d, reference, mutable) ==
    CASE d.kind = "Struct" ->
            [custom |-> "SharedStruct", name |-> d.name,
             swift_repr |-> d.swift_repr, fields |-> d.fields,
             swift_name |-> d.swift_name,
             already_declared |-> FALSE]
      [] d.kind = "Enum" ->
            [custom |-> "SharedEnum", name |-> d.name, variants |-> d.variants]
      [] d.kind = "Opaque" ->
            [custom |-> "Opaque", ty |-> d.ty, host_lang |-> d.host_lang,
             reference |-> reference, mutable |-> mutable]
to_bridged_type(d, reference, mutable) ==
    CASE d.kind = "Struct" ->
            [custom |-> "SharedStruct", name |-> d.name,
             swift_repr |-> d.swift_repr, fields |-> d.fields,
             swift_name |-> d.swift_name,
             already_declared |-> d.already_declared]
      [] d.kind = "Enum" ->
            [custom |-> "SharedEnum", name |-> d.name, variants |-> d.variants]
      [] d.kind = "Opaque" ->
            [custom |-> "Opaque", ty |-> d.ty, host_lang |-> d.host_lang,
             reference |-> reference, mutable |-> mutable]

\* OpaqueForeignTypeDeclaration::free_link_name
free_link_name_undelimited(d) == SWIFT_BRIDGE_PREFIX \o d.ty \o "$_free"
free_link_name(d) == SWIFT_BRIDGE_PREFIX \o "$" \o d.ty \o "$_free"
\* OpaqueForeignTypeDeclaration::free_func_name
free_func_name(d) == SWIFT_BRIDGE_PREFIX \o d.ty \o "__free"

(***************************************************************************)
(* The state machine of one registry.                                      *)
(***************************************************************************)
Registry == [decls |-> decls, order |-> order]

Init ==
    /\ decls = <<>>
    /\ order = <<>>
    /\ log = <<>>
    /\ before = [decls |-> <<>>, order |-> <<>>]
    /\ last = [op |-> "new"]
    /\ handles = <<>>
    /\ step = [op |-> "start"]

\* TypeDeclarations::insert(type_name, ty)
Insert(type_name, ty) ==
    /\ Len(log) < MaxInserts
    /\ last.op # "generate"
    /\ decls' = MapInsert(decls, type_name, ty)
    /\ order' = Append(order, type_name)
    /\ log' = Append(log, <<type_name, ty>>)
    /\ before' = Registry
    /\ last' = [op |-> "insert", type_name |-> type_name, ty |-> ty,
                result |-> "unit"]
    /\ UNCHANGED glueVars

\* TypeDeclarations::get_with_type(ty)
GetWithType(ty) ==
    /\ last' = [op |-> "get_with_type", ty |-> ty,
                result |-> get_with_type(decls, ty)]
    /\ before' = Registry
    /\ UNCHANGED <<decls, order, log>>
    /\ UNCHANGED glueVars

\* One use site: the declaration found for `type_name` is turned into the
\* bridged type of a usage with the given reference and mutable flags.
ToBridgedType(type_name, reference, mutable) ==
    /\ type_name \in DOMAIN decls
    /\ last' = [op |-> "to_bridged_type", decl |-> decls[type_name],
                reference |-> reference, mutable |-> mutable,
                result |-> to_bridged_type(decls[type_name], reference, mutable)]
    /\ before' = Registry
    /\ UNCHANGED <<decls, order, log>>
    /\ UNCHANGED glueVars

Next ==
    \/ \E n \in TypeNames : \E d \in DeclsNamed(n) : Insert(n, d)
    \/ \E ty \in TypesUpTo(TypeNames, MaxRefDepth) : GetWithType(ty)
    \/ \E n \in TypeNames : \E r \in BOOLEAN, m \in BOOLEAN : ToBridgedType(n, r, m)

Spec == Init /\ [][Next]_vars

(***************************************************************************)
(* Properties of the registry, checked under Spec.                         *)
(***************************************************************************)
Range(q) == {q[i] : i \in 1..Len(q)}
NoDuplicates(q) == \A i, j \in 1..Len(q) : q[i] = q[j] => i = j

\* C1: an insert under a name already present fails with DuplicateTypeName
\* and leaves the declaration map and the order list as they were; an insert
\* under a new name stores the declaration and appends the name to the end
\* of the order list.
C1_InsertRejectsDuplicateName ==
    last.op = "insert" =>
        IF last.type_name \in DOMAIN before.decls
        THEN /\ last.result = "DuplicateTypeName"
             /\ decls = before.decls
             /\ order = before.order
        ELSE /\ decls = MapInsert(before.decls, last.type_name, last.ty)
             /\ order = Append(before.order, last.type_name)

\* C2: after any sequence of inserts the order list holds each name at most
\* once and holds exactly the keys of the declaration map, so types() has
\* one entry per declared name.
C2_OrderListsEachNameOnce ==
    /\ NoDuplicates(order)
    /\ Range(order) = DOMAIN decls
    /\ Len(types(decls, order)) = Cardinality(DOMAIN decls)

LogNames == [i \in 1..Len(log) |-> log[i][1]]
LogDecls == [i \in 1..Len(log) |-> log[i][2]]

\* C3: after inserts (n1,d1), ..., (nk,dk) with pairwise distinct names on
\* an empty registry, types() is exactly d1, ..., dk: it is a function of
\* the insert sequence alone, whatever order the map keeps its keys in.
C3_TypesInDeclarationOrder ==
    NoDuplicates(LogNames) => types(decls, order) = LogDecls

C3_Witness ==
    /\ Len(log) = 2
    /\ LogNames = <<"B", "A">>
    /\ types(decls, order) = LogDecls

RECURSIVE StripReferences(_)
StripReferences(ty) ==
    IF ty.shape = "Reference" THEN StripReferences(ty.elem) ELSE ty

RECURSIVE RefDepth(_)
RefDepth(ty) == IF ty.shape = "Reference" THEN 1 + RefDepth(ty.elem) ELSE 0

UsageOfDeclared(ty, map) ==
    /\ StripReferences(ty).shape = "Path"
    /\ StripReferences(ty).name \in DOMAIN map

\* C4 as claimed: a usage of a declared name T resolves to the declaration
\* get(T) returns, by value or behind any number of reference wrappers, and
\* the lookup leaves the registry unchanged.
C4_EveryReferenceWrapperStripped ==
    last.op = "get_with_type" /\ UsageOfDeclared(last.ty, before.decls) =>
        /\ last.result = Returns(get(before.decls, StripReferences(last.ty).name))
        /\ Registry = before

\* C4 as amended: a usage of a declared name T by value, behind `&` or
\* behind `&mut` resolves to the declaration get(T) returns; exactly one
\* reference wrapper is stripped, so T behind a reference to a reference is
\* not found; the lookup leaves the registry unchanged.
C4_OneReferenceWrapperStripped ==
    last.op = "get_with_type" /\ UsageOfDeclared(last.ty, before.decls) =>
        /\ RefDepth(last.ty) <= 1 =>
                /\ last.result = Returns(get(before.decls, StripReferences(last.ty).name))
                /\ last.result.value.some
        /\ RefDepth(last.ty) >= 2 => last.result = Returns(None)
        /\ Registry = before

C4_Witness ==
    /\ last.op = "get_with_type"
    /\ last.ty = TypeReference(TRUE, TypePath("A"))
    /\ "A" \in DOMAIN decls
    /\ last.result = Returns(Some(decls["A"]))

\* C6: the bridged type of an opaque declaration d for a usage
\* (reference, mutable) is opaque, has d's name and owning side and exactly
\* the two flags of the usage; d and the registry are left as they were, and
\* every usage of d carries d's owning side.
C6_OpaqueBridgedTypeKeepsOwner ==
    last.op = "to_bridged_type" /\ last.decl.kind = "Opaque" =>
        /\ last.result.custom = "Opaque"
        /\ last.result.ty = last.decl.ty
        /\ last.result.host_lang = last.decl.host_lang
        /\ last.result.reference = last.reference
        /\ last.result.mutable = last.mutable
        /\ Registry = before
        /\ last.decl \in {decls[n] : n \in DOMAIN decls}
        /\ \A r, m \in BOOLEAN :
                to_bridged_type(last.decl, r, m).host_lang = last.decl.host_lang

C6_Witness ==
    /\ last.op = "to_bridged_type"
    /\ last.decl = OpaqueDecl("A", "Swift", FALSE)
    /\ last.reference /\ ~last.mutable
    /\ last.result.reference /\ ~last.result.mutable
    /\ last.result.host_lang = "Swift"

(***************************************************************************)
(* Code generation for one module: the registry built so far plus the      *)
(* module's `extern "Swift"` functions, each taking one argument.  The     *)
(* generators themselves are not part of the sources at hand; what they    *)
(* emit is taken from the expectations of codegen_tests.rs and from the    *)
(* design document.  A generated item is a record of the facts the         *)
(* expected text states.                                                   *)
(***************************************************************************)
BuiltinNames == {"u8"}

FnName(i) == "some_function" \o (IF i = 1 THEN "" ELSE "_" \o ToString(i))

\* The type names the functions of the module mention; by the symmetry of
\* TypeNames it is declared first, second, twice or not at all.
ParamNames == {"A"}

\* The usages a parameter can have: a name by value, behind `&`, behind
\* `&mut`; and a type of some other shape.
ParamTypes ==
    {TypePath(n) : n \in ParamNames \cup BuiltinNames}
        \cup {TypeReference(m, TypePath(n)) : m \in BOOLEAN, n \in ParamNames}
        \cup {TypeOther}

RECURSIVE SeqsUpTo(_, _)
SeqsUpTo(S, n) ==
    IF n = 0 THEN {<<>>}
    ELSE LET shorter == SeqsUpTo(S, n - 1)
         IN  shorter \cup {Append(q, x) : q \in shorter, x \in S}

FnLists ==
    {[i \in 1..Len(q) |-> [name |-> FnName(i), arg |-> q[i]]] :
        q \in SeqsUpTo(ParamTypes, MaxFns)}

IsBuiltin(ty) == ty.shape = "Path" /\ ty.name \in BuiltinNames

\* Bridged Type Resolver: look the usage up in the registry, fall back to
\* the builtins, otherwise UnresolvedType.
Resolve(map, ty) ==
    LET found == get_with_type(map, ty)
    IN  CASE found.panic -> [outcome |-> "panic"]
          [] found.value.some ->
                [outcome |-> "ok",
                 bridged |-> to_bridged_type(found.value.value,
                                             ty.shape = "Reference",
                                             ty.shape = "Reference" /\ ty.mutable)]
          [] IsBuiltin(ty) -> [outcome |-> "ok", bridged |-> [custom |-> "Builtin", name |-> ty.name]]
          [] OTHER -> [outcome |-> "UnresolvedType"]

\* How the argument crosses the boundary, per category and usage.
ArgPassing(b) ==
    CASE b.custom = "Opaque" /\ b.reference -> "borrowed_pointer"
      [] b.custom = "Opaque" /\ b.host_lang = "Rust" -> "box_into_raw"
      [] b.custom = "Opaque" /\ b.host_lang = "Swift" -> "move_wrapper"
      [] b.custom \in {"SharedStruct", "SharedEnum"} -> "transcribe"
      [] OTHER -> "builtin"

ArgRebuild(b) ==
    CASE b.custom = "Opaque" /\ b.reference -> "borrowed_pointer"
      [] b.custom = "Opaque" /\ b.host_lang = "Rust" -> "wrap_ptr"
      [] b.custom = "Opaque" /\ b.host_lang = "Swift" -> "take_retained_value"
      [] b.custom \in {"SharedStruct", "SharedEnum"} -> "transcribe"
      [] OTHER -> "builtin"

BridgedName(b) == IF b.custom = "Opaque" THEN b.ty ELSE b.name

fn_link_name(fn) == SWIFT_BRIDGE_PREFIX \o "$" \o fn.name
fn_func_name(fn) == SWIFT_BRIDGE_PREFIX \o fn.name

\* Native side, per function: the public wrapper and the extern "C"
\* declaration it calls.
RustFnItems(fn, b) ==
    <<[item |-> "pub_fn", name |-> fn.name, arg_type |-> BridgedName(b),
       arg_passing |-> ArgPassing(b), calls |-> fn_func_name(fn)],
      [item |-> "extern_fn", ident |-> fn_func_name(fn),
       link_name |-> fn_link_name(fn)]>>

\* Host side, per function: the exported trampoline.
SwiftFnItems(fn, b) ==
    <<[item |-> "trampoline", cdecl |-> fn_link_name(fn),
       func |-> fn_func_name(fn), arg_type |-> BridgedName(b),
       arg_rebuild |-> ArgRebuild(b), calls |-> fn.name]>>

\* Native side, per declared type: a host-owned opaque type gets the
\* pointer wrapper, its Drop and the declaration of the free trampoline.
RustTypeItems(d) ==
    IF d.kind = "Opaque" /\ d.host_lang = "Swift"
    THEN <<[item |-> "ptr_struct", name |-> d.ty],
           [item |-> "drop", for |-> d.ty, calls |-> free_func_name(d)],
           [item |-> "extern_fn", ident |-> free_func_name(d),
            link_name |-> free_link_name(d)]>>
    ELSE <<>>

\* Header, per declared type.
HeaderTypeItems(d) ==
    CASE d.kind = "Opaque" /\ d.host_lang = "Rust" /\ ~d.already_declared ->
            <<[item |-> "typedef", name |-> d.ty]>>
      [] d.kind = "Struct" /\ ~d.already_declared ->
            <<[item |-> "struct", name |-> d.name, fields |-> d.fields]>>
      [] d.kind = "Enum" ->
            <<[item |-> "enum", name |-> d.name, variants |-> d.variants]>>
      [] OTHER -> <<>>

RECURSIVE Flatten(_)
Flatten(ss) == IF ss = <<>> THEN <<>> ELSE Head(ss) \o Flatten(Tail(ss))

\* The outcome of the first parameter that does not resolve, "ok" if all do.
RECURSIVE FirstFailure(_)
FirstFailure(rs) ==
    IF rs = <<>> THEN "ok"
    ELSE IF Head(rs).outcome # "ok" THEN Head(rs).outcome
    ELSE FirstFailure(Tail(rs))

NoArtifacts == [rust |-> None, swift |-> None, header |-> None]

RustCallSiteItems(fns, bs) ==
    Flatten([i \in 1..Len(fns) |-> RustFnItems(fns[i], bs[i])])
SwiftCallSiteItems(fns, bs) ==
    Flatten([i \in 1..Len(fns) |-> SwiftFnItems(fns[i], bs[i])])

Generated(map, ord, fns) ==
    LET rs == [i \in 1..Len(fns) |-> Resolve(map, fns[i].arg)]
        ts == types(map, ord)
    IN  IF FirstFailure(rs) # "ok"
        THEN [outcome |-> FirstFailure(rs)] @@ NoArtifacts
        ELSE [outcome |-> "ok",
              call_site_types |-> [i \in 1..Len(fns) |-> rs[i].bridged],
              rust |-> Some(RustCallSiteItems(fns, [i \in 1..Len(fns) |-> rs[i].bridged])
                            \o Flatten([i \in 1..Len(ts) |-> RustTypeItems(ts[i])])),
              swift |-> Some(SwiftCallSiteItems(fns, [i \in 1..Len(fns) |-> rs[i].bridged])),
              header |-> Some(Flatten([i \in 1..Len(ts) |-> HeaderTypeItems(ts[i])]))]

\* The generation pass over the module; it ends the run.
Generate(fns) ==
    /\ last.op # "generate"
    /\ last' = [op |-> "generate", fns |-> fns,
                result |-> Generated(decls, order, fns)]
    /\ before' = Registry
    /\ UNCHANGED <<decls, order, log>>
    /\ UNCHANGED glueVars

GenerationPass == last.op # "generate" /\ \E fns \in FnLists : Generate(fns)

CodegenNext ==
    \/ \E n \in TypeNames : \E d \in DeclsNamed(n) : Insert(n, d)
    \/ GenerationPass

CodegenSpec == Init /\ [][CodegenNext]_vars

(***************************************************************************)
(* Properties of the generated artifacts, checked under CodegenSpec.       *)
(***************************************************************************)
Occurrences(q, e) == Cardinality({k \in 1..Len(q) : q[k] = e})

Unresolvable(ty, map) == ~IsBuiltin(ty) /\ ~UsageOfDeclared(ty, map)

\* C5: a parameter type that is neither a builtin nor a usage of a declared
\* name, whatever its shape, ends the pass with UnresolvedType (not with a
\* crash, not with an absent result) and none of the three artifacts.
C5_UnresolvableParamIsUnresolvedType ==
    /\ last.op = "generate"
    /\ \E i \in 1..Len(last.fns) : Unresolvable(last.fns[i].arg, before.decls)
    => /\ last.result.outcome = "UnresolvedType"
       /\ last.result.rust = None
       /\ last.result.swift = None
       /\ last.result.header = None

HasFlag(d) == d.kind \in {"Opaque", "Struct"}
Toggled(d) == [d EXCEPT !.already_declared = ~@]
ToggledRegistry(map, n) == [map EXCEPT ![n] = Toggled(@)]
HeaderDeclares(result, n) == (\E x \in Range(result.header.value) : x.name = n)

FlagOnlySuppressesHeader(n) ==
    LET other == Generated(ToggledRegistry(decls, n), order, last.fns)
    IN  /\ other.outcome = "ok"
        /\ HeaderDeclares(last.result, n) => ~decls[n].already_declared
        /\ HeaderDeclares(other, n) => decls[n].already_declared
        /\ RustCallSiteItems(last.fns, other.call_site_types)
                = RustCallSiteItems(last.fns, last.result.call_site_types)
        /\ SwiftCallSiteItems(last.fns, other.call_site_types)
                = SwiftCallSiteItems(last.fns, last.result.call_site_types)

\* C7 as claimed: for a declared type with an already-declared flag, the
\* header declares the type only when the flag is off, and the module with
\* the flag toggled has the same call-site glue and, for every usage, the
\* same bridged type.
C7_FlagLeavesBridgedTypeIdentical ==
    last.op = "generate" /\ last.result.outcome = "ok" =>
        \A n \in DOMAIN decls : HasFlag(decls[n]) =>
            /\ FlagOnlySuppressesHeader(n)
            /\ \A r, m \in BOOLEAN :
                    to_bridged_type(Toggled(decls[n]), r, m)
                        = to_bridged_type(decls[n], r, m)

\* C7 as amended: the header declares the type only when the flag is off
\* and the call-site glue is the same in both modules; the bridged type of
\* an opaque type is the same in both, while the bridged type of a shared
\* struct carries the declaration's flag and is the same in every other
\* field.
C7_FlagLeavesCallSiteGlueIdentical ==
    last.op = "generate" /\ last.result.outcome = "ok" =>
        \A n \in DOMAIN decls : HasFlag(decls[n]) =>
            /\ FlagOnlySuppressesHeader(n)
            /\ \A r, m \in BOOLEAN :
                    LET here == to_bridged_type(decls[n], r, m)
                        there == to_bridged_type(Toggled(decls[n]), r, m)
                    IN  IF decls[n].kind = "Opaque"
                        THEN there = here
                        ELSE /\ here.already_declared = decls[n].already_declared
                             /\ there.already_declared = ~decls[n].already_declared
                             /\ [there EXCEPT !.already_declared = ~@] = here

C7_Witness ==
    /\ last.op = "generate"
    /\ last.result.outcome = "ok"
    /\ "A" \in DOMAIN decls
    /\ decls["A"] = SharedStructDecl("A", TRUE)
    /\ (\E f \in Range(last.fns) : f.arg = TypePath("A"))
    /\ ~HeaderDeclares(last.result, "A")
    /\ HeaderDeclares(Generated(ToggledRegistry(decls, "A"), order, last.fns), "A")

\* The functions of the pass that take the native-owned (host-owned) opaque
\* type declared as n by value.
ByValueUses(n, lang) ==
    {i \in 1..Len(last.fns) :
        /\ last.fns[i].arg = TypePath(n)
        /\ n \in DOMAIN decls
        /\ decls[n].kind = "Opaque"
        /\ decls[n].host_lang = lang}

NativeOwnedGlue(i, n) ==
    LET link == SWIFT_BRIDGE_PREFIX \o "$" \o last.fns[i].name
        ident == SWIFT_BRIDGE_PREFIX \o last.fns[i].name
    IN  /\ (\E x \in Range(last.result.rust.value) :
                /\ x.item = "pub_fn" /\ x.name = last.fns[i].name
                /\ x.arg_passing = "box_into_raw" /\ x.calls = ident)
        /\ (\E x \in Range(last.result.rust.value) :
                x.item = "extern_fn" /\ x.ident = ident /\ x.link_name = link)
        /\ (\E x \in Range(last.result.swift.value) :
                /\ x.item = "trampoline" /\ x.cdecl = link
                /\ x.arg_rebuild = "wrap_ptr" /\ x.arg_type = n
                /\ x.calls = last.fns[i].name)

Typedefs(n) ==
    Occurrences(last.result.header.value, [item |-> "typedef", name |-> n])

C9_HostOwnedGlue ==
    last.op = "generate" /\ last.result.outcome = "ok" =>
        \A n \in TypeNames : \A i \in ByValueUses(n, "Swift") :
            LET free == SWIFT_BRIDGE_PREFIX \o n \o "__free"
                link == SWIFT_BRIDGE_PREFIX \o "$" \o n \o "$_free"
            IN  /\ (\E x \in Range(last.result.rust.value) :
                        x.item = "ptr_struct" /\ x.name = n)
                /\ (\E x \in Range(last.result.rust.value) :
                        x.item = "drop" /\ x.for = n /\ x.calls = free)
                /\ (\E x \in Range(last.result.rust.value) :
                        x.item = "extern_fn" /\ x.ident = free /\ x.link_name = link)
                /\ \A k \in 1..Len(last.result.rust.value) :
                        LET x == last.result.rust.value[k]
                        IN  x.item = "extern_fn" /\ x.ident = free => x.link_name = link
                /\ ~HeaderDeclares(last.result, n)
                /\ (\E x \in Range(last.result.swift.value) :
                        /\ x.item = "trampoline"
                        /\ x.cdecl = SWIFT_BRIDGE_PREFIX \o "$" \o last.fns[i].name
                        /\ x.arg_type = n
                        /\ x.arg_rebuild = "take_retained_value")

C9_Witness ==
    /\ last.op = "generate"
    /\ last.result.outcome = "ok"
    /\ "A" \in DOMAIN decls
    /\ decls["A"] = OpaqueDecl("A", "Swift", FALSE)
    /\ ByValueUses("A", "Swift") # {}
    /\ last.result.header = Some(<<>>)

(***************************************************************************)
(* One run of the generated glue.  An opaque value is native-owned (a Rust *)
(* value) or host-owned (a Swift object).  Passing it by value constructs  *)
(* a handle: a heap box of a native-owned value, a retained reference of a *)
(* host-owned value.  `holders` are the places that own the handle and     *)
(* will release it when they are done with it.                             *)
(***************************************************************************)
NewValue(lang) ==
    [host_lang |-> lang, constructed |-> 0, released |-> 0, holders |-> {}]

\* extern "Swift" fn taking a native-owned type by value, native side:
\*     __swift_bridge__some_function(Box::into_raw(Box::new(arg)) as *mut _)
\* The box is allocated and, by into_raw, no longer owned by native code.
box_into_raw(v) ==
    [v EXCEPT !.constructed = @ + 1, !.holders = {"raw_in_flight"}]

\* Host side: some_function(arg: MyType(ptr: arg))
wrap_ptr(v) ==
    [v EXCEPT !.holders = (@ \ {"raw_in_flight"}) \cup {"host_wrapper"}]

\* The host-held wrapper is released back across the boundary and the
\* native side deallocates the box.
release_host_wrapper(v) ==
    [v EXCEPT !.released = @ + 1, !.holders = @ \ {"host_wrapper"}]

\* A host-owned value crosses to the native side by value: the host
\* retains it and the native side holds the address in the wrapper struct
\*     pub struct MyType(*mut c_void)
retain_and_pass(v) ==
    [v EXCEPT !.constructed = @ + 1, !.holders = {"native_wrapper"}]

\* impl Drop for MyType { fn drop(&mut self) { __swift_bridge__MyType__free(self.0) } }
drop_wrapper(v) ==
    [v EXCEPT !.released = @ + 1, !.holders = @ \ {"native_wrapper"}]

\* pub fn some_function(arg: MyType) { __swift_bridge__some_function(arg) }
\* The wrapper is moved into the call, so its Drop does not run.
move_wrapper(v) ==
    [v EXCEPT !.holders = (@ \ {"native_wrapper"}) \cup {"wrapper_in_flight"}]

\* Unmanaged<MyType>.fromOpaque(arg.ptr).takeRetainedValue(): the host's
\* reference counting takes over the reference retained before the crossing.
take_unretained_value(v) ==
    [v EXCEPT !.holders = @ \ {"wrapper_in_flight"}]
take_retained_value(v) ==
    [v EXCEPT !.holders = (@ \ {"wrapper_in_flight"}) \cup {"host_arc"}]

\* The host's reference counting releases the reference it owns after the
\* last use.
arc_release(v) ==
    [v EXCEPT !.released = @ + 1, !.holders = @ \ {"host_arc"}]

\* A by-reference or by-mutable-reference usage: only the borrowed pointer
\* is threaded through.
borrow(v) == v

GlueInit ==
    /\ decls = <<>>
    /\ order = <<>>
    /\ log = <<>>
    /\ before = [decls |-> <<>>, order |-> <<>>]
    /\ last = [op |-> "new"]
    /\ handles \in [1..MaxHandles -> {NewValue(l) : l \in HostLangs}]
    /\ step = [op |-> "start"]

GlueStep(name, h, v) ==
    /\ handles' = [handles EXCEPT ![h] = v]
    /\ step' = [op |-> name, h |-> h, pre |-> handles]
    /\ UNCHANGED registryVars

\* Native code calls a host function with a native-owned value by value.
CallWithOwnedNativeValue(h) ==
    /\ handles[h].host_lang = "Rust"
    /\ handles[h].constructed = 0
    /\ GlueStep("box_into_raw", h, box_into_raw(handles[h]))

\* The host trampoline of that call runs.
TrampolineWrapsPointer(h) ==
    /\ "raw_in_flight" \in handles[h].holders
    /\ GlueStep("wrap_ptr", h, wrap_ptr(handles[h]))

\* The host drops its wrapper.
HostReleasesWrapper(h) ==
    /\ "host_wrapper" \in handles[h].holders
    /\ GlueStep("release_host_wrapper", h, release_host_wrapper(handles[h]))

\* The host hands a host-owned value to native code by value.
HostPassesOwnedValue(h) ==
    /\ handles[h].host_lang = "Swift"
    /\ handles[h].constructed = 0
    /\ GlueStep("retain_and_pass", h, retain_and_pass(handles[h]))

\* The native wrapper goes out of scope.
NativeDropsWrapper(h) ==
    /\ "native_wrapper" \in handles[h].holders
    /\ GlueStep("drop_wrapper", h, drop_wrapper(handles[h]))

\* Native code calls a host function with the host-owned value by value.
CallWithOwnedHostValue(h) ==
    /\ "native_wrapper" \in handles[h].holders
    /\ GlueStep("move_wrapper", h, move_wrapper(handles[h]))

\* The host trampoline of that call runs.
TrampolineTakesRetainedValue(h) ==
    /\ "wrapper_in_flight" \in handles[h].holders
    /\ GlueStep("take_retained_value", h, take_retained_value(handles[h]))

\* The host function is done with the value.
HostFinishesWithValue(h) ==
    /\ "host_arc" \in handles[h].holders
    /\ GlueStep("arc_release", h, arc_release(handles[h]))

\* Native code calls a host function with the value behind & or &mut: a
\* native-owned value it still owns, or a host-owned value it holds.
CallWithBorrowedValue(h) ==
    /\ \/ handles[h].host_lang = "Rust" /\ handles[h].constructed = 0
       \/ "native_wrapper" \in handles[h].holders
    /\ GlueStep("borrow", h, borrow(handles[h]))

GlueNext ==
    \E h \in 1..MaxHandles :
        \/ CallWithOwnedNativeValue(h)
        \/ TrampolineWrapsPointer(h)
        \/ HostReleasesWrapper(h)
        \/ HostPassesOwnedValue(h)
        \/ NativeDropsWrapper(h)
        \/ CallWithOwnedHostValue(h)
        \/ TrampolineTakesRetainedValue(h)
        \/ HostFinishesWithValue(h)
        \/ CallWithBorrowedValue(h)

GlueSpec == GlueInit /\ [][GlueNext]_vars

\* C10: a handle is released at most once at every moment, and once no
\* place holds it any more it has been released exactly once; a handle
\* still held has not been released; a by-reference usage allocates and
\* releases nothing.
C10_HandleReleasedExactlyOnce ==
    /\ \A h \in 1..MaxHandles :
            /\ handles[h].constructed <= 1
            /\ handles[h].released <= handles[h].constructed
            /\ handles[h].constructed = 1 =>
                    (handles[h].holders = {} <=> handles[h].released = 1)
    /\ step.op = "borrow" => handles = step.pre

C10_Witness ==
    /\ handles[1].host_lang = "Rust"
    /\ handles[1].constructed = 1 /\ handles[1].released = 1
    /\ handles[2].host_lang = "Swift"
    /\ handles[2].constructed = 1 /\ handles[2].released = 1
    /\ step.op = "arc_release"

====
